---- MODULE Spec2Model ----
(***************************************************************************)
(* Model of frontend/src/App.tsx: the score-to-category mapping, the       *)
(* upload handlers (handleFile, handleUpload) and the export handler       *)
(* (handleExportPdf) of the App component.  The file holds two versions of *)
(* the component (lines 1-451 and lines 452-800); `version` selects which  *)
(* one is mounted.                                                         *)
(*                                                                         *)
(* Numbers are kept in tenths (45 stands for 4.5), so that the grid of     *)
(* half steps and the value 10.6 are integers.  An optional value (T |     *)
(* null) is a sequence of length at most one: Null is <<>>, a present      *)
(* value x is <<x>>.                                                       *)
(***************************************************************************)
EXTENDS Integers, Sequences, FiniteSets, TLC

VARIABLES version,   \* which App component of the file is mounted (1 or 2)
          file,      \* useState<File | null>
          loading,   \* useState(false)
          result,    \* useState<AnalysisResult | null>
          error,     \* useState<string | null>
          requests,  \* analyze-report requests in flight (the file each carries)
          exports,   \* the runs of handleExportPdf, by slot
          lastOp,    \* the handler that ran last, with its input
          scoreA,    \* input of mapScoreToCategory / RiskScoreCard
          scoreB,    \* a second input of mapScoreToCategory
          catA,      \* mapScoreToCategory(scoreA), once computed
          catB,      \* mapScoreToCategory(scoreB), once computed
          shown,     \* category displayed by RiskScoreCard, once rendered
          mapPc,     \* "input", then "mapped" or "rendered"
          report,    \* an AnalysisResult handed to the report markup
          view,      \* what the report markup displays for it, once rendered
          renderPc   \* "input", then "done"

vars == <<version, file, loading, result, error, requests, exports, lastOp,
          scoreA, scoreB, catA, catB, shown, mapPc, report, view, renderPc>>

uiVars == <<version, file, loading, result, error, requests, exports, lastOp>>
renderVars == <<report, view, renderPc>>
mapVars == <<scoreA, scoreB, catA, catB, shown, mapPc, report, view, renderPc>>

(***************************************************************************)
(* Bounds                                                                  *)
(***************************************************************************)
GridBelow == 3
MaxScore == 12
MaxExports == 2
MaxListLen == 1

Null == <<>>
Some(x) == <<x>>

(***************************************************************************)
(* JavaScript numbers: k is "num" (v in tenths), "nan", "inf", "-inf";     *)
(* the field of a parsed response may also be "undefined" or "null".       *)
(***************************************************************************)
Num(t) == [k |-> "num", v |-> t]
NaN == [k |-> "nan", v |-> 0]
PosInf == [k |-> "inf", v |-> 0]
NegInf == [k |-> "-inf", v |-> 0]
Undefined == [k |-> "undefined", v |-> 0]
JsNull == [k |-> "null", v |-> 0]

\* ToNumber, applied by Math.round to its argument
ToNumber(x) ==
  IF x.k = "undefined" THEN NaN
  ELSE IF x.k = "null" THEN Num(0)
  ELSE x

\* Math.floor in place of Math.round
MathRoundFloor(x) ==
  LET n == ToNumber(x) IN
  IF n.k = "num" THEN Num((n.v \div 10) * 10) ELSE n

\* Math.round: the nearest integer, ties towards +Infinity
MathRound(x) ==
  LET n == ToNumber(x) IN
  IF n.k = "num" THEN Num(((n.v + 5) \div 10) * 10) ELSE n

\* a < b on numbers; false when either is NaN
JsLess(a, b) ==
  IF a.k = "nan" \/ b.k = "nan" THEN FALSE
  ELSE IF a.k = "-inf" THEN b.k # "-inf"
  ELSE IF a.k = "inf" THEN FALSE
  ELSE IF b.k = "inf" THEN TRUE
  ELSE IF b.k = "-inf" THEN FALSE
  ELSE a.v < b.v

JsStrictEq(a, b) == a.k # "nan" /\ b.k # "nan" /\ a = b

JsLessEq(a, b) == JsLess(a, b) \/ JsStrictEq(a, b)

\* Math.max / Math.min of two numbers: NaN if either is NaN
MathMax(a, b) ==
  IF a.k = "nan" \/ b.k = "nan" THEN NaN
  ELSE IF JsLess(a, b) THEN b ELSE a

MathMin(a, b) ==
  IF a.k = "nan" \/ b.k = "nan" THEN NaN
  ELSE IF JsLess(b, a) THEN b ELSE a

\* a ?? b
NullishCoalesce(a, b) == IF a.k \in {"undefined", "null"} THEN b ELSE a

\* the last test written as an equality: 5 falls through to the last bucket
mapScoreToCategoryEq(score) ==
  LET rounded == MathRound(score)
      clamped == MathMin(Num(100), MathMax(Num(0), rounded))
  IN  IF JsLessEq(clamped, Num(20)) THEN 1
      ELSE IF JsStrictEq(clamped, Num(30)) THEN 2
      ELSE IF JsStrictEq(clamped, Num(40)) THEN 3
      ELSE IF JsStrictEq(clamped, Num(60)) THEN 4
      ELSE 5

\* the last bucket guarded by a test: NaN falls off the end (0: no category)
mapScoreToCategoryFallThrough(score) ==
  LET rounded == MathRound(score)
      clamped == MathMin(Num(100), MathMax(Num(0), rounded))
  IN  IF JsLessEq(clamped, Num(20)) THEN 1
      ELSE IF JsStrictEq(clamped, Num(30)) THEN 2
      ELSE IF JsStrictEq(clamped, Num(40)) THEN 3
      ELSE IF JsLessEq(clamped, Num(60)) THEN 4
      ELSE IF JsLessEq(clamped, Num(100)) THEN 5
      ELSE 0

mapScoreToCategory(score) ==
  LET rounded == MathRound(score)
      clamped == MathMin(Num(100), MathMax(Num(0), rounded))
  IN  IF JsLessEq(clamped, Num(20)) THEN 1
      ELSE IF JsStrictEq(clamped, Num(30)) THEN 2
      ELSE IF JsStrictEq(clamped, Num(40)) THEN 3
      ELSE IF JsLessEq(clamped, Num(60)) THEN 4
      ELSE 5

\* the category RiskScoreCard displays for a result
RiskScoreCard(v, res) ==
  IF v = 1
    THEN LET rawScore == NullishCoalesce(res.risk_score_0_to_10, Num(0))
         IN  mapScoreToCategory(rawScore)
    ELSE mapScoreToCategory(res.risk_score_0_to_10)

\* scores on the 0.5-step grid -GridBelow..MaxScore, and 10.6
Grid == {t \in (-GridBelow * 10)..(MaxScore * 10) : t % 5 = 0} \cup {106}
GridScores == {Num(t) : t \in Grid}
ScoreInputs == GridScores \cup {NaN, PosInf, NegInf, Undefined, JsNull}

(***************************************************************************)
(* The pure functions, applied to drawn inputs                             *)
(***************************************************************************)
MapApply ==
  /\ mapPc = "input"
  /\ catA' = mapScoreToCategory(scoreA)
  /\ catB' = mapScoreToCategory(scoreB)
  /\ mapPc' = "mapped"
  /\ UNCHANGED <<scoreA, scoreB, shown>>
  /\ UNCHANGED renderVars
  /\ UNCHANGED uiVars

RenderCard ==
  /\ mapPc = "input"
  /\ shown' = RiskScoreCard(version, [risk_score_0_to_10 |-> scoreA])
  /\ mapPc' = "rendered"
  /\ UNCHANGED <<scoreA, scoreB, catA, catB>>
  /\ UNCHANGED renderVars
  /\ UNCHANGED uiVars

(***************************************************************************)
(* The report markup of App, applied to a result with absent fields        *)
(***************************************************************************)
\* the placeholder of lines 340 and 347 (an en dash, U+2013)
Dash == "-"

\* x || Dash on an optional string
OrDash(x) == IF x # Null /\ x[1] # "" THEN x[1] ELSE Dash

\* {x}: an absent value renders as no text
Text(x) == IF x # Null THEN x[1] ELSE ""

\* SWOTGrid.renderList: the <ul> items, or the "Keine Punkte erkannt." line
renderList(items) ==
  IF items # Null /\ Len(items[1]) > 0
    THEN [ul |-> items[1], empty |-> FALSE]
    ELSE [ul |-> <<>>, empty |-> TRUE]

SWOTGrid(swot) ==
  <<renderList(swot.strengths), renderList(swot.weaknesses),
    renderList(swot.opportunities), renderList(swot.threats)>>

\* the default of result.swot || {...}: four empty lists
EmptySwot ==
  [strengths |-> Some(<<>>), weaknesses |-> Some(<<>>),
   opportunities |-> Some(<<>>), threats |-> Some(<<>>)]

\* a render that threw (a TypeError on undefined.map)
Crashed ==
  [crashed |-> TRUE, company_name |-> "", fiscal_year |-> "",
   drivers |-> <<>>, swot |-> <<>>]

\* the {result && ...} markup: first version lines 315-445, second 724-795
AppRender(v, res) ==
  IF v = 1
    THEN [crashed |-> FALSE,
          company_name |-> OrDash(res.company_name),
          fiscal_year |-> OrDash(res.company_fiscal_year),
          drivers |-> IF res.key_downgrade_drivers # Null
                        THEN res.key_downgrade_drivers[1] ELSE <<>>,
          swot |-> SWOTGrid(IF res.swot # Null THEN res.swot[1] ELSE EmptySwot)]
    ELSE IF res.key_downgrade_drivers = Null
      THEN Crashed
      ELSE [crashed |-> FALSE,
            company_name |-> Text(res.company_name),
            fiscal_year |-> Text(res.company_fiscal_year),
            drivers |-> res.key_downgrade_drivers[1],
            swot |-> <<>>]

OptNames == {Null, Some(""), Some("ACME AG")}
OptYears == {Null, Some("2023")}
OptLists == {Null, Some(<<>>), Some(<<"x">>)}
OptSwots ==
  {Null} \cup
  {Some([strengths |-> a, weaknesses |-> b, opportunities |-> c, threats |-> d]) :
     a \in OptLists, b \in OptLists, c \in OptLists, d \in OptLists}

\* results as the service may deliver them, any field absent
Reports ==
  [company_name : OptNames, company_fiscal_year : OptYears,
   key_downgrade_drivers : OptLists, swot : OptSwots]

NoReport ==
  [company_name |-> Null, company_fiscal_year |-> Null,
   key_downgrade_drivers |-> Null, swot |-> Null]

RenderReport ==
  /\ renderPc = "input"
  /\ view' = AppRender(version, report)
  /\ renderPc' = "done"
  /\ UNCHANGED <<report, scoreA, scoreB, catA, catB, shown, mapPc>>
  /\ UNCHANGED uiVars

(***************************************************************************)
(* JavaScript values of the `detail` field of an error body                *)
(***************************************************************************)
DUndefined == [t |-> "undefined", s |-> "", a |-> <<>>]
DString(x) == [t |-> "string", s |-> x, a |-> <<>>]
DArray(xs) == [t |-> "array", s |-> "", a |-> xs]

Truthy(d) ==
  IF d.t = "undefined" THEN FALSE
  ELSE IF d.t = "string" THEN d.s # ""
  ELSE TRUE

\* a || b
JsOr(a, b) == IF Truthy(a) THEN a ELSE b

RECURSIVE Join(_)
Join(xs) ==
  IF Len(xs) = 0 THEN ""
  ELSE IF Len(xs) = 1 THEN xs[1]
  ELSE xs[1] \o "," \o Join(Tail(xs))

\* String(d), as new Error(d) applies it to its message argument
JsString(d) ==
  IF d.t = "undefined" THEN "undefined"
  ELSE IF d.t = "string" THEN d.s
  ELSE Join(d.a)

\* x || y on strings
StrOr(x, y) == IF x # "" THEN x ELSE y

(***************************************************************************)
(* Files, file lists and responses                                         *)
(***************************************************************************)
PDF == "application/pdf"

Files == { [name |-> "a.pdf", type |-> PDF],
           [name |-> "b.pdf", type |-> PDF],
           [name |-> "c.txt", type |-> "text/plain"] }

RECURSIVE SeqsUpTo(_)
SeqsUpTo(n) ==
  IF n = 0 THEN {<<>>}
  ELSE LET shorter == SeqsUpTo(n - 1)
       IN  shorter \cup {Append(l, f) : l \in {q \in shorter : Len(q) = n - 1}, f \in Files}

\* FileList | null
FileListInputs == {Null} \cup {Some(l) : l \in SeqsUpTo(MaxListLen)}

Details == {DUndefined, DString(""), DString("Datei zu gross."), DArray(<<>>)}

\* how an analyze-report request settles
Outcomes ==
  {[kind |-> "ok", detail |-> DUndefined],
   [kind |-> "badjson", detail |-> DUndefined],
   [kind |-> "neterr", detail |-> DUndefined]}
  \cup {[kind |-> "notok", detail |-> d] : d \in Details}

Op(name) == [op |-> name, files |-> Null]

(***************************************************************************)
(* handleFile                                                              *)
(***************************************************************************)
\* the type check placed after the state updates
handleFileLateCheck(files) ==
  IF files = Null \/ Len(files[1]) = 0
    THEN UNCHANGED <<file, result, error>>
    ELSE LET f == files[1][1] IN
         IF f.type # PDF
           THEN /\ error' = Some("Bitte eine PDF-Datei hochladen.")
                /\ file' = Some(f)
                /\ result' = Null
           ELSE /\ error' = Null
                /\ file' = Some(f)
                /\ result' = Null

handleFile(files) ==
  IF files = Null \/ Len(files[1]) = 0
    THEN UNCHANGED <<file, result, error>>
    ELSE LET f == files[1][1] IN
         IF f.type # PDF
           THEN /\ error' = Some("Bitte eine PDF-Datei hochladen.")
                /\ UNCHANGED <<file, result>>
           ELSE /\ error' = Null
                /\ file' = Some(f)
                /\ result' = Null

\* onDrop / onChange of the file input
HandleFile ==
  \E files \in FileListInputs :
    /\ handleFile(files)
    /\ lastOp' = [op |-> "handleFile", files |-> files]
    /\ UNCHANGED <<version, loading, requests, exports>>
    /\ UNCHANGED mapVars

(***************************************************************************)
(* handleUpload                                                            *)
(***************************************************************************)
\* the start button disabled only while no file is selected
StartEnabledNoLoading == file # Null

\* the start button: disabled={!file || loading}
StartEnabled == file # Null /\ ~loading

\* click on the start button: handleUpload up to its await fetch(...)
HandleUpload ==
  /\ StartEnabled
  /\ IF file = Null
       THEN UNCHANGED <<loading, error, result, requests>>
       ELSE /\ loading' = TRUE
            /\ error' = Null
            /\ result' = Null
            /\ requests' = Append(requests, file[1].name)
  /\ lastOp' = Op("handleUpload")
  /\ UNCHANGED <<version, file, exports>>
  /\ UNCHANGED mapVars

\* message of the Error that reaches the catch block
ThrownMessage(o) ==
  IF o.kind = "notok"
    THEN JsString(JsOr(o.detail, DString("Fehler bei der Analyse.")))
  ELSE IF o.kind = "badjson" THEN "Unexpected end of JSON input"
  ELSE "Failed to fetch"

\* the string the catch block passes to setError
CaughtMessage(v, o) ==
  IF v = 1 THEN StrOr(ThrownMessage(o), "Unbekannter Fehler.")
  ELSE ThrownMessage(o)

RemoveAt(q, i) == SubSeq(q, 1, i - 1) \o SubSeq(q, i + 1, Len(q))

\* the finally block skipped when the request fails
SettleLoadingOnSuccessOnly(o) == IF o.kind = "ok" THEN FALSE ELSE loading

\* finally { setLoading(false) }
SettleLoading(o) == FALSE

\* setResult(data) on success; the failure path does not touch result
SettleResult(i, o) ==
  IF o.kind = "ok" THEN Some([src |-> requests[i]]) ELSE result

\* the rest of handleUpload, after the awaited request i settles as o
UploadSettle(i, o) ==
  /\ i \in 1..Len(requests)
  /\ result' = SettleResult(i, o)
  /\ error' = IF o.kind = "ok" THEN error ELSE Some(CaughtMessage(version, o))
  /\ loading' = SettleLoading(o)
  /\ requests' = RemoveAt(requests, i)
  /\ lastOp' = Op(IF o.kind = "ok" THEN "uploadOk" ELSE "uploadFailed")
  /\ UNCHANGED <<version, file, exports>>
  /\ UNCHANGED mapVars

Settle == \E i \in 1..Len(requests), o \in Outcomes : UploadSettle(i, o)

(***************************************************************************)
(* handleExportPdf                                                         *)
(***************************************************************************)
\* page1Ref / page2Ref: attached while the report is rendered ({result && ...})
page1Ref == IF result # Null THEN Some("page1") ELSE Null
page2Ref == IF result # Null THEN Some("page2") ELSE Null

IdleExport ==
  [pc |-> "idle", pages |-> <<>>, el |-> Null, alerts |-> 0, saved |-> FALSE,
   log |-> <<>>, rasters |-> <<>>, geom |-> <<>>]

\* html2canvas option scale: 2
CaptureScale == 2

\* rendered size (CSS pixels) of a report page element: A4 at 96 dpi, or taller
ElementSizes == {[w |-> 794, h |-> 1123], [w |-> 794, h |-> 1300]}

\* the canvas html2canvas returns for an element of the given size
Raster(size) == [w |-> CaptureScale * size.w, h |-> CaptureScale * size.h]

\* page size of format "a4" in unit "mm"
A4WidthMm == 210
A4HeightMm == 297

\* new jsPDF("p", "mm", "a4"), and its internal.pageSize
NewJsPDF ==
  [orientation |-> "p", unit |-> "mm", w |-> A4WidthMm, h |-> A4HeightMm]

\* a page as jsPDF creates it (constructor, addPage): the document's format
BlankPage(doc) == [unit |-> doc.unit, w |-> doc.w, h |-> doc.h, iw |-> 0, ih |-> 0]

\* the image drawn at its own pixel size
ImageBoxNative(doc, raster) == [iw |-> raster.w, ih |-> raster.h]

\* addImage(img, "PNG", 0, 0, pageWidth, pageHeight): the box the image fills
ImageBox(doc, raster) == [iw |-> doc.w, ih |-> doc.h]

\* the geometry of the current (last) page after addImage
PlaceImage(geom, doc, raster) ==
  [geom EXCEPT ![Len(geom)] =
     [@ EXCEPT !.iw = ImageBox(doc, raster).iw, !.ih = ImageBox(doc, raster).ih]]

\* both captures requested at once (Promise.all)
FirstCapturesTogether == <<"start1", "start2">>

\* the html2canvas calls made before the first await
FirstCaptures == <<"start1">>

InFlight(e) == exports[e].pc \in {"capture1", "capture2", "fetch", "blob"}

FreeSlots == {e \in 1..MaxExports : ~InFlight(e)}

\* the export button is rendered only inside {result && ...}
ExportButtonShown == result # Null

\* the guard at the top of handleExportPdf
ExportGuard(v) ==
  IF v = 1 THEN result # Null /\ page1Ref # Null /\ page2Ref # Null
  ELSE result # Null

\* click on the export button: handleExportPdf up to its first await
HandleExportPdf ==
  /\ ExportButtonShown
  /\ FreeSlots # {}
  /\ LET e == CHOOSE x \in FreeSlots : \A y \in FreeSlots : x <= y IN
     IF ~ExportGuard(version)
       THEN UNCHANGED exports
       ELSE exports' = [exports EXCEPT ![e] =
              IF version = 1
                THEN [pc |-> "capture1", pages |-> <<"blank">>, el |-> page1Ref,
                      alerts |-> 0, saved |-> FALSE,
                      log |-> FirstCaptures, rasters |-> <<>>,
                      geom |-> <<BlankPage(NewJsPDF)>>]
                ELSE [pc |-> "fetch", pages |-> <<>>, el |-> Null,
                      alerts |-> 0, saved |-> FALSE,
                      log |-> <<>>, rasters |-> <<>>, geom |-> <<>>]]
  /\ lastOp' = Op("handleExportPdf")
  /\ UNCHANGED <<version, file, loading, result, error, requests>>
  /\ UNCHANGED mapVars

\* pdf.save in a finally block: runs on the failure path too
ExportCatchSaving(x) ==
  [x EXCEPT !.pc = "failed", !.alerts = @ + 1, !.saved = TRUE]

\* catch (err) { ...; alert(...) }
ExportCatch(x) == [x EXCEPT !.pc = "failed", !.alerts = @ + 1]

\* pdf.addImage on the current (last) page
AddImage(pages, img) == [pages EXCEPT ![Len(pages)] = img]

\* pdf.addPage
AddPage(pages) == Append(pages, "blank")

\* html2canvas rejects when its element argument is null
CaptureSucceeds(x, ok) == ok /\ x.el # Null

\* version 1: the capture of page 1 settles; page 2's capture is requested
Capture1Done(e, ok, size) ==
  /\ version = 1
  /\ exports[e].pc = "capture1"
  /\ exports' = [exports EXCEPT ![e] =
       IF CaptureSucceeds(exports[e], ok)
         THEN [@ EXCEPT !.pages = AddImage(@, "page1"),
                        !.rasters = Append(@, Raster(size)),
                        !.geom = PlaceImage(@, NewJsPDF, Raster(size)),
                        !.log = @ \o <<"done1", "start2">>,
                        !.el = page2Ref,
                        !.pc = "capture2"]
         ELSE ExportCatch(@)]
  /\ lastOp' = Op("capture1Done")
  /\ UNCHANGED <<version, file, loading, result, error, requests>>
  /\ UNCHANGED mapVars

\* version 1: the capture of page 2 settles; the document is saved
Capture2Done(e, ok, size) ==
  /\ version = 1
  /\ exports[e].pc = "capture2"
  /\ exports' = [exports EXCEPT ![e] =
       IF CaptureSucceeds(exports[e], ok)
         THEN [@ EXCEPT !.pages = AddImage(AddPage(@), "page2"),
                        !.rasters = Append(@, Raster(size)),
                        !.geom = PlaceImage(Append(@, BlankPage(NewJsPDF)),
                                            NewJsPDF, Raster(size)),
                        !.log = Append(@, "done2"),
                        !.saved = TRUE,
                        !.pc = "saved"]
         ELSE ExportCatch(@)]
  /\ lastOp' = Op("capture2Done")
  /\ UNCHANGED <<version, file, loading, result, error, requests>>
  /\ UNCHANGED mapVars

\* version 2: the report-pdf request settles
ExportFetchDone(e, ok) ==
  /\ version = 2
  /\ exports[e].pc = "fetch"
  /\ exports' = [exports EXCEPT ![e] =
       IF ok THEN [@ EXCEPT !.pc = "blob"] ELSE ExportCatch(@)]
  /\ lastOp' = Op("exportFetchDone")
  /\ UNCHANGED <<version, file, loading, result, error, requests>>
  /\ UNCHANGED mapVars

\* version 2: res.blob() settles; the download link is clicked
ExportBlobDone(e, ok) ==
  /\ version = 2
  /\ exports[e].pc = "blob"
  /\ exports' = [exports EXCEPT ![e] =
       IF ok THEN [@ EXCEPT !.pages = <<"blob">>, !.saved = TRUE, !.pc = "saved"]
       ELSE ExportCatch(@)]
  /\ lastOp' = Op("exportBlobDone")
  /\ UNCHANGED <<version, file, loading, result, error, requests>>
  /\ UNCHANGED mapVars

(***************************************************************************)
(* Specifications                                                          *)
(***************************************************************************)
UiInit ==
  /\ version \in {1, 2}
  /\ file = Null
  /\ loading = FALSE
  /\ result = Null
  /\ error = Null
  /\ requests = <<>>
  /\ exports = [e \in 1..MaxExports |-> IdleExport]
  /\ lastOp = Op("mount")

NoRender ==
  /\ report = NoReport
  /\ view = Crashed
  /\ renderPc = "idle"

NoMap ==
  /\ scoreA = Num(0)
  /\ scoreB = Num(0)
  /\ catA = 0
  /\ catB = 0
  /\ shown = 0

Init ==
  /\ UiInit
  /\ NoMap
  /\ mapPc = "input"
  /\ NoRender

Next ==
  \/ HandleFile
  \/ HandleUpload
  \/ Settle
  \/ HandleExportPdf
  \/ \E e \in 1..MaxExports, ok \in BOOLEAN, size \in ElementSizes :
       Capture1Done(e, ok, size)
  \/ \E e \in 1..MaxExports, ok \in BOOLEAN, size \in ElementSizes :
       Capture2Done(e, ok, size)
  \/ \E e \in 1..MaxExports, ok \in BOOLEAN : ExportFetchDone(e, ok)
  \/ \E e \in 1..MaxExports, ok \in BOOLEAN : ExportBlobDone(e, ok)

Spec == Init /\ [][Next]_vars

\* every request settles: the promise of fetch resolves or rejects
FairSpec == Spec /\ WF_vars(Settle)

MapInit ==
  /\ UiInit
  /\ scoreA \in ScoreInputs
  /\ scoreB \in ScoreInputs
  /\ catA = 0
  /\ catB = 0
  /\ shown = 0
  /\ mapPc = "input"
  /\ NoRender

MapNext == MapApply \/ RenderCard

MapSpec == MapInit /\ [][MapNext]_vars

RenderInit ==
  /\ UiInit
  /\ NoMap
  /\ mapPc = "idle"
  /\ report \in Reports
  /\ view = Crashed
  /\ renderPc = "input"

RenderNext == RenderReport

RenderSpec == RenderInit /\ [][RenderNext]_vars

(***************************************************************************)
(* Properties                                                              *)
(***************************************************************************)
\* the reference mapping, on tenths: round half away from zero, clamp, bucket
RefRound(t) == IF t >= 0 THEN (t + 5) \div 10 ELSE -((5 - t) \div 10)
RefClamp(n) == IF n < 0 THEN 0 ELSE IF n > 10 THEN 10 ELSE n
RefBucket(n) ==
  IF n \in 0..2 THEN 1
  ELSE IF n = 3 THEN 2
  ELSE IF n = 4 THEN 3
  ELSE IF n \in 5..6 THEN 4
  ELSE 5
RefCategory(t) == RefBucket(RefClamp(RefRound(t)))

\* C1: on every score of the grid (ties and out-of-range values included),
\* mapScoreToCategory returns bucket(clamp(round-half-away(score), 0, 10)).
C1_MatchesReference ==
  (mapPc = "mapped" /\ scoreA.k = "num") => catA = RefCategory(scoreA.v)

\* a negative tie, where Math.round and round-half-away differ before the clamp
C1_Witness ==
  /\ mapPc = "mapped"
  /\ scoreA = Num(-15)
  /\ MathRound(scoreA) # Num(RefRound(-15) * 10)
  /\ catA = 1

\* C2: mapScoreToCategory returns an integer in 1..5 for every input,
\* NaN, the infinities, negative scores and scores above 10 included.
C2_Total == mapPc = "mapped" => (catA \in 1..5 /\ catB \in 1..5)

C2_Witness == mapPc = "mapped" /\ scoreA = NaN /\ catA = 5

\* C3: a NaN or missing (undefined / null) risk score is displayed by
\* RiskScoreCard as category 1, like the score 0.
C3_NaNAsZero ==
  (mapPc = "rendered" /\ scoreA.k \in {"nan", "undefined", "null"}) => shown = 1

\* C4: mapScoreToCategory is monotonic non-decreasing: a <= b implies
\* mapScoreToCategory(a) <= mapScoreToCategory(b).
C4_Monotonic ==
  (/\ mapPc = "mapped"
   /\ scoreA.k \in {"num", "inf", "-inf"}
   /\ scoreB.k \in {"num", "inf", "-inf"}
   /\ JsLessEq(scoreA, scoreB)) => catA <= catB

C4_Witness ==
  /\ mapPc = "mapped"
  /\ scoreA = Num(55) /\ scoreB = Num(65)
  /\ catA = 4 /\ catB = 5

\* C5: the response of a request for a superseded file is never stored:
\* result is only ever the analysis of the currently selected file.
C5_NoStaleResult ==
  result # Null => (file # Null /\ result[1].src = file[1].name)

\* every page of an export, by version
FullDocument(v) == IF v = 1 THEN <<"page1", "page2">> ELSE <<"blob">>

\* C6: an export that failed at any step before the save has saved nothing
\* and raised the alert exactly once; a saved document holds every page.
C6_NoPartialArtifact ==
  \A e \in 1..MaxExports :
    LET x == exports[e] IN
    /\ x.pc = "failed" => (~x.saved /\ x.alerts = 1)
    /\ x.saved => (x.pc = "saved" /\ x.pages = FullDocument(version) /\ x.alerts = 0)
    /\ InFlight(e) => (~x.saved /\ x.alerts = 0)

\* the capture of page 2 failed after page 1 was added to the document
C6_Witness ==
  \E e \in 1..MaxExports :
    /\ exports[e].pc = "failed"
    /\ exports[e].pages = <<"page1">>
    /\ ~exports[e].saved

\* C7: loading is true only while a request is in flight, and once set it
\* eventually becomes false again, however the request settles.
C7_LoadingCleared ==
  /\ [](loading => Len(requests) > 0)
  /\ (loading ~> ~loading)

C7_Witness == lastOp.op = "uploadFailed" /\ ~loading /\ requests = <<>>

\* C8: at most one run of handleExportPdf is in flight at any time.
C8_AtMostOneExport == Cardinality({e \in 1..MaxExports : InFlight(e)}) <= 1

\* C9: handleFile with a non-PDF first file sets the error message and leaves
\* file, result, loading and the requests unchanged; handleFile with an empty
\* or null list changes nothing.
C9_RejectNoChange ==
  [][lastOp'.op = "handleFile" =>
       LET fs == lastOp'.files IN
       /\ (fs = Null \/ Len(fs[1]) = 0) =>
            UNCHANGED <<file, result, loading, error, requests, exports>>
       /\ (fs # Null /\ Len(fs[1]) > 0 /\ fs[1][1].type # PDF) =>
            /\ error' = Some("Bitte eine PDF-Datei hochladen.")
            /\ UNCHANGED <<file, result, loading, requests>>]_vars

\* a text file was rejected while a file and its analysis were held
C9_Witness ==
  /\ lastOp.op = "handleFile"
  /\ lastOp.files # Null /\ Len(lastOp.files[1]) > 0
  /\ lastOp.files[1][1].type # PDF
  /\ file # Null /\ result # Null
  /\ error = Some("Bitte eine PDF-Datei hochladen.")

\* C10: after a handleUpload run that ended in a non-success response or a
\* transport failure, error is a non-empty message and result is null.
C10_FailureSurfaces ==
  lastOp.op = "uploadFailed" =>
    (error # Null /\ error # Some("") /\ result = Null)

\* C11: within one export the capture of page 2 starts only after the capture
\* of page 1 has completed, and the saved document holds page 1's raster
\* first, then page 2's.
C11_PagesInOrder ==
  \A e \in 1..MaxExports :
    LET x == exports[e] IN
    /\ \A j \in 1..Len(x.log) :
         x.log[j] = "start2" => \E i \in 1..(j - 1) : x.log[i] = "done1"
    /\ (version = 1 /\ x.saved) =>
         (x.pages = <<"page1", "page2">> /\ Len(x.rasters) = 2)

C11_Witness ==
  \E e \in 1..MaxExports :
    /\ exports[e].saved
    /\ exports[e].log = <<"start1", "done1", "start2", "done2">>

C13_AbsentFieldsRender ==
  renderPc = "done" =>
    /\ ~view.crashed
    /\ report.company_name = Null => view.company_name = Dash
    /\ report.company_fiscal_year = Null => view.fiscal_year = Dash
    /\ report.key_downgrade_drivers = Null => view.drivers = <<>>
    /\ \A k \in 1..Len(view.swot) : report.swot = Null => view.swot[k].empty
    /\ (report.swot # Null /\ Len(view.swot) = 4) =>
         /\ report.swot[1].strengths = Null => view.swot[1].empty
         /\ report.swot[1].weaknesses = Null => view.swot[2].empty
         /\ report.swot[1].opportunities = Null => view.swot[3].empty
         /\ report.swot[1].threats = Null => view.swot[4].empty

\* C14: in every export a fonts/layout-ready signal has been awaited before
\* the capture of the first page starts.
C14_ReadyBeforeCapture ==
  \A e \in 1..MaxExports :
    \A j \in 1..Len(exports[e].log) :
      exports[e].log[j] = "start1" =>
        \E i \in 1..(j - 1) : exports[e].log[i] = "ready"

\* C15: at most one analysis request is in flight at any time, and a request
\* starts only when a file is selected, loading is false and none is in flight.
C15_SingleRequest ==
  /\ [](Len(requests) <= 1)
  /\ [][Len(requests') > Len(requests) =>
         (file # Null /\ ~loading /\ requests = <<>>)]_vars

\* another file was selected while the one request was in flight
C15_Witness ==
  /\ Len(requests) = 1
  /\ loading
  /\ lastOp.op = "handleFile"
  /\ file # Null /\ file[1].name # requests[1]

====
